---- MODULE Spec2Model ----
(***************************************************************************)
(* State-machine model of the AudioVisualizer web application:             *)
(*   audioContext.js  (src/unnamed/part_000)                               *)
(*   utils.js         (src/utils.js, lines 1-40)                           *)
(*   visualizer.js    (src/utils.js, lines 42-239)                         *)
(*   toneGenerator.js (src/toneGenerator.js)                               *)
(*   mp3Handler.js    (src/grok-Audio-output-fixes-prompt.md, 321-447)     *)
(*   script.js        (src/grok-Audio-output-fixes-prompt.md, 449-636)     *)
(*                                                                         *)
(* JavaScript runs one task at a time.  A synchronous function is one      *)
(* action.  An async function is a sequence of actions, one per stretch    *)
(* of code between two awaits; the position of every invocation is kept    *)
(* in calls[p].pc.  Web Audio connections are edges of the audio graph:    *)
(* connect() adds an edge, disconnect() removes it, and stop() ends the    *)
(* playback of a node without touching its edges.                          *)
(***************************************************************************)
EXTENDS Integers, Sequences, FiniteSets, TLC

\* ------------------------------------------------------------------ bounds
\* number of invocations of async functions that are suspended at an await
MaxPending == 2
\* the same number in the specifications of the media element (SpecSource)
\* and of the frame loop (SpecFrames)
MaxOverlap == 1
\* number of producers created
MaxNodes == 2
\* number of callbacks handed to requestAnimationFrame
MaxFrames == 4

\* ------------------------------------------------------------- input sets
\* arguments of playTone: the text "abc", Infinity, 0 and 440
NaNFreq == [cls |-> "nan", v |-> 0]
InfFreq == [cls |-> "inf", v |-> 0]
NoArg == [cls |-> "none", v |-> 0]
A440 == [cls |-> "num", v |-> 440]
FreqInputs ==
    {[cls |-> "text", v |-> 0], InfFreq, [cls |-> "num", v |-> 0], A440}
\* the checked radio button of input[name="waveform"]; "" when none is checked
WaveformInputs == {"", "sine"}
\* the checked radio button of input[name="noiseType"]; "" when none is checked
NoiseTypeInputs == {"", "none", "white", "pink"}
\* the values of the visualizer select
VisualizerTypes == {"bar", "kaleidoscope", "kaleidoscope-b", "none"}
DrawModes == {"bar", "kaleidoscope", "kaleidoscope-b"}
\* the sample rates of the context, in units that keep the buffers short
MaxSampleRate == 2
SampleRates == 1..MaxSampleRate
\* Math.random() returns r / Scale for an r in 0..Scale-1: a value in [0, 1)
Scale == 4
RandomValues == 0..(Scale - 1)
\* number of noise players created in a row
MaxBuffers == 3
\* analyser.frequencyBinCount for an fftSize of 32, 128 and 2048
BinCounts == {16, 64, 1024}
\* the values of dataArray[0], a byte
Magnitudes == {0, 1, 255}
\* number of frames one kaleidoscope loop draws
MaxLoopFrames == 3
\* createPinkNoise line 24: b0 = b1 = b2 = b3 = b4 = b5 = b6 = 0.0
ZeroFilter == <<0, 0, 0, 0, 0, 0>>
\* the call of lines 71-90 of playTone that throws: none, the creation of the
\* producer, its connect() or its start()
Faults == {"none", "create", "connect", "start"}

VARIABLES
    ctxState,                    \* audioContext.state
    analyserOut,                 \* nodes the analyser is connected to
    nodes,                       \* producers created so far, by creation order
    source,                      \* toneGenerator.js: source (0 is null)
    mp3Source,                   \* mp3Handler.js: mp3Source (0 is null)
    mediaElementSourceCreated,   \* mp3Handler.js: mediaElementSourceCreated
    audioPlayer,                 \* the audio element: src, playing, bound
    calls,                       \* suspended invocations, by invocation order
    lastDone,                    \* the async invocation that returned last
    currentVisualizerAnimation,  \* visualizer.js (0 is null)
    visualizerType,              \* visualizer.js
    frames,                      \* callbacks given to requestAnimationFrame
    loopCount,                   \* number of draw closures created
    canvas,                      \* what the canvas was last painted with
    sampleRate,                  \* audioContext.sampleRate
    random,                      \* the values Math.random() returns to a call
    b,                           \* b0..b5 as the last createPinkNoise left them
    noiseBuffers,                \* the noise players returned so far
    segments,                    \* drawKaleidoscope, drawKaleidoscopeB: segments
    bufferLength,                \* analyser.frequencyBinCount
    rotation,                    \* the rotation of the loop, in 1/1000
    lowest,                      \* dataArray[0] in each frame of the loop
    points                       \* frequencyIndex of each point of the last frame

vars == <<ctxState, analyserOut, nodes, source, mp3Source,
          mediaElementSourceCreated, audioPlayer, calls, lastDone,
          currentVisualizerAnimation, visualizerType, frames, loopCount,
          canvas, sampleRate, random, b, noiseBuffers, segments, bufferLength,
          rotation, lowest, points>>

audioVars == <<nodes, source, mp3Source, mediaElementSourceCreated, audioPlayer>>
visVars == <<currentVisualizerAnimation, visualizerType, frames, loopCount, canvas>>
noiseVars == <<sampleRate, random, b, noiseBuffers>>
kaleidoscopeVars == <<segments, bufferLength, rotation, lowest, points>>
pureVars == <<noiseVars, kaleidoscopeVars>>

NoCall ==
    [fn |-> "", arg |-> NoArg, pc |-> "done", ops |-> <<>>, alerts |-> 0,
     errors |-> 0, outcome |-> "", since |-> ""]

\* ------------------------------------------------------- audioContext.js
Init ==
    /\ ctxState \in {"suspended", "running"}
    /\ analyserOut = {"destination"}
    /\ nodes = <<>>
    /\ source = 0
    /\ mp3Source = 0
    /\ mediaElementSourceCreated = FALSE
    /\ audioPlayer = [src |-> "", playing |-> FALSE, bound |-> FALSE]
    /\ calls = <<>>
    /\ lastDone = NoCall
    /\ currentVisualizerAnimation = 0
    /\ visualizerType = "bar"
    /\ frames = <<>>
    /\ loopCount = 0
    /\ canvas = "blank"
    /\ sampleRate = 1
    /\ random = <<>>
    /\ b = ZeroFilter
    /\ noiseBuffers = <<>>
    /\ segments = 60
    /\ bufferLength = 1024
    /\ rotation = 0
    /\ lowest = <<>>
    /\ points = <<>>

\* ------------------------------------------------------------- helpers
\* since: what was invoked after this invocation began: "" nothing, "stopTone"
\* or "stopMp3" that function once and nothing else, "other" anything else
NewCall(fn, arg, pc) ==
    [fn |-> fn, arg |-> arg, pc |-> pc,
     ops |-> IF pc = "resume" THEN <<"ensureAudioContextActive", "resume">>
             ELSE <<"ensureAudioContextActive">>,
     alerts |-> 0, errors |-> 0, outcome |-> "pending", since |-> ""]

Noted(c, fn) ==
    IF c.fn = "" THEN c
    ELSE [c EXCEPT !.since = IF c.since = "" /\ fn \in {"stopTone", "stopMp3"}
                             THEN fn ELSE "other"]

\* fn is invoked: every earlier invocation takes note of it
Note(cs, fn) == [q \in DOMAIN cs |-> Noted(cs[q], fn)]

\* the invocation returns; the argument is kept when it took effect
Finish(c, ops, alerts, errors, outcome) ==
    [c EXCEPT !.pc = "done", !.arg = IF outcome = "ok" THEN c.arg ELSE NoArg,
              !.ops = c.ops \o ops,
              !.alerts = c.alerts + alerts, !.errors = c.errors + errors,
              !.outcome = outcome]

\* the invocation goes on to its next await
Advance(c, pc, ops, alerts, errors) ==
    [c EXCEPT !.pc = pc, !.ops = c.ops \o ops, !.alerts = c.alerts + alerts,
              !.errors = c.errors + errors]

Remove(cs, p) == [q \in 1..(Len(cs) - 1) |-> IF q < p THEN cs[q] ELSE cs[q + 1]]

\* buffer: the AudioBuffer a noise player loops, by creation order (0: none)
NewNode(kind) ==
    [kind |-> kind, out |-> {}, started |-> FALSE, stopped |-> FALSE,
     buffer |-> 0]

\* no continuation is waiting in the microtask queue: the current task is over
NoMicrotask == \A p \in DOMAIN calls : calls[p].pc # "tick"

CanCall == Len(calls) < MaxPending

CanCreate == Len(nodes) < MaxNodes

\* ---------------------------------------------------------------- utils.js
\* ensureAudioContextActive without the test of line 11: resume() is never
\* called and awaited
EnsureAudioContextActivePcNoResume(st) == "tick"

\* where ensureAudioContextActive suspends: at the await of resume() when the
\* context is suspended, else at the caller's await of its settled promise
EnsureAudioContextActivePc(st) == IF st = "suspended" THEN "resume" ELSE "tick"

\* ensureAnalyserOutput where a second connect() of the same pair of nodes
\* undoes the first
EnsureAnalyserOutputToggle(st, out) ==
    IF st = "closed"
    THEN [out |-> out, ok |-> FALSE, alerts |-> 1, errors |-> 1]
    ELSE [out |-> (out \cup {"destination"}) \ (out \cap {"destination"}),
          ok |-> TRUE, alerts |-> 0, errors |-> 0]

EnsureAnalyserOutput(st, out) ==
    IF st = "closed"
    THEN [out |-> out, ok |-> FALSE, alerts |-> 1, errors |-> 1]
    ELSE [out |-> out \cup {"destination"}, ok |-> TRUE, alerts |-> 0, errors |-> 0]

\* ----------------------------------------------------------- visualizer.js
VState ==
    [cur |-> currentVisualizerAnimation, frames |-> frames,
     loopCount |-> loopCount, canvas |-> canvas]

SetV(V) ==
    /\ currentVisualizerAnimation' = V.cur
    /\ frames' = V.frames
    /\ loopCount' = V.loopCount
    /\ canvas' = V.canvas

RequestAnimationFrame(fs, loop, mode) ==
    Append(fs, [loop |-> loop, mode |-> mode, st |-> "pending"])

CancelAnimationFrame(fs, id) ==
    IF id \in DOMAIN fs /\ fs[id].st = "pending"
    THEN [fs EXCEPT ![id].st = "cancelled"]
    ELSE fs

\* draw with line 101 as requestAnimationFrame(draw): the handle is dropped
drawDropsHandle(V, loop, mode, err) ==
    LET fs == RequestAnimationFrame(V.frames, loop, mode)
    IN IF err
       THEN [V EXCEPT !.frames = CancelAnimationFrame(fs, V.cur)]
       ELSE [V EXCEPT !.frames = fs, !.canvas = mode]

\* draw without the cancelAnimationFrame of its catch block (line 123)
drawNoCancelOnError(V, loop, mode, err) ==
    LET id == Len(V.frames) + 1
        fs == RequestAnimationFrame(V.frames, loop, mode)
    IN IF err
       THEN [V EXCEPT !.cur = id, !.frames = fs]
       ELSE [V EXCEPT !.cur = id, !.frames = fs, !.canvas = mode]

\* one run of the closure draw of drawBarGraph, drawKaleidoscope or
\* drawKaleidoscopeB; err: a canvas or DOM operation of the frame throws
draw(V, loop, mode, err) ==
    LET id == Len(V.frames) + 1
        fs == RequestAnimationFrame(V.frames, loop, mode)
    IN IF err
       THEN [V EXCEPT !.cur = id, !.frames = CancelAnimationFrame(fs, id)]
       ELSE [V EXCEPT !.cur = id, !.frames = fs, !.canvas = mode]

\* visualize without lines 66-69: the running loop is not cancelled
visualizeNoCancel(V, type, err) ==
    IF type \in DrawModes
    THEN draw([V EXCEPT !.loopCount = V.loopCount + 1], V.loopCount + 1, type, err)
    ELSE [V EXCEPT !.canvas = "cleared"]

\* visualize with the cancellation of lines 66-69 moved into the three
\* drawing branches: the branch that clears the canvas cancels nothing
visualizeNoneKeepsLoop(V, type, err) ==
    LET V1 == [V EXCEPT !.frames = IF V.cur # 0
                                   THEN CancelAnimationFrame(V.frames, V.cur)
                                   ELSE V.frames]
    IN IF type \in DrawModes
       THEN draw([V1 EXCEPT !.loopCount = V.loopCount + 1],
                 V.loopCount + 1, type, err)
       ELSE [V EXCEPT !.canvas = "cleared"]

visualize(V, type, err) ==
    LET V1 == [V EXCEPT !.frames = IF V.cur # 0
                                   THEN CancelAnimationFrame(V.frames, V.cur)
                                   ELSE V.frames]
    IN IF type \in DrawModes
       THEN draw([V1 EXCEPT !.loopCount = V.loopCount + 1],
                 V.loopCount + 1, type, err)
       ELSE [V1 EXCEPT !.canvas = "cleared"]

\* the bound on frames: a call that would request a frame needs room for it
FrameRoom(type) == type \in DrawModes => Len(frames) < MaxFrames

\* ------------------------------------------------------- toneGenerator.js
\* parseFloat of the argument: a number is itself, the text "abc" is NaN
parseFloat(a) == IF a.cls = "text" THEN NaNFreq ELSE a

isNaN(f) == f.cls = "nan"

\* freq <= 0 in JavaScript: false for NaN and for Infinity
LeqZero(f) == f.cls = "num" /\ f.v <= 0

\* oscillator.frequency.setValueAtTime throws a TypeError on a non-finite value
isFinite(f) == f.cls = "num"

\* line 53: the frequency test of playTone
InvalidFrequency(freq) == isNaN(freq) \/ LeqZero(freq)

\* AudioScheduledSourceNode.stop(): throws when start() was never called;
\* it ends the playback and leaves the connections of the node alone
NodeStop(n) ==
    IF n.started
    THEN [node |-> [n EXCEPT !.stopped = TRUE], threw |-> FALSE]
    ELSE [node |-> n, threw |-> TRUE]

\* stopTone without the catch of lines 105-106: the error of stop() leaves
\* the function after the finally
stopToneNoCatch(ns, src) ==
    IF src # 0
    THEN LET r == NodeStop(ns[src])
         IN [nodes |-> [ns EXCEPT ![src] = r.node], source |-> 0,
             errors |-> 0, threw |-> r.threw]
    ELSE [nodes |-> ns, source |-> src, errors |-> 0, threw |-> FALSE]

\* stopTone without source.stop() (line 104): the reference is dropped and
\* the producer plays on
stopToneOnlyNulls(ns, src) ==
    [nodes |-> ns, source |-> 0, errors |-> 0, threw |-> FALSE]

\* threw: an error leaves the function; the catch of line 105 logs it instead
stopTone(ns, src) ==
    IF src # 0
    THEN LET r == NodeStop(ns[src])
         IN [nodes |-> [ns EXCEPT ![src] = r.node], source |-> 0,
             errors |-> IF r.threw THEN 1 ELSE 0, threw |-> FALSE]
    ELSE [nodes |-> ns, source |-> src, errors |-> 0, threw |-> FALSE]

NoiseKind(noiseType) ==
    CASE noiseType = "none" -> "oscillator"
      [] noiseType = "white" -> "white"
      [] noiseType = "pink" -> "pink"

\* a number x is kept as the integer x * Fix, the arithmetic of the noise
\* functions rounds down to a multiple of 1 / Fix
Fix == 10000

Mul(c, x) == (c * x) \div Fix

\* line 13, line 29: Math.random() * 2 - 1 for Math.random() = r / Scale
White(r) == ((2 * r - Scale) * Fix) \div Scale

\* lines 12-14: the loop of createWhiteNoise from index i on
RECURSIVE WhiteLoop(_, _, _, _)
WhiteLoop(rnd, i, bufferSize, out) ==
    IF i < bufferSize
    THEN WhiteLoop(rnd, i + 1, bufferSize, Append(out, White(rnd[i + 1])))
    ELSE out

\* createWhiteNoise with bufferSize = audioContext.sampleRate (line 9
\* without the factor 2)
createWhiteNoiseOneSecond(sr, rnd) ==
    [kind |-> "white", length |-> sr, data |-> WhiteLoop(rnd, 0, sr, <<>>),
     loop |-> TRUE]

\* createWhiteNoise: the buffer source it returns, with the length and the
\* channel data of its buffer
createWhiteNoise(sr, rnd) ==
    LET bufferSize == 2 * sr
    IN [kind |-> "white", length |-> bufferSize,
        data |-> WhiteLoop(rnd, 0, bufferSize, <<>>), loop |-> TRUE]

\* lines 30-37: one pass of the loop of createPinkNoise over the filter
\* state bs = <<b0, .., b5>> with the white sample w
PinkStep(bs, w) ==
    LET n0 == Mul(9989, bs[1]) + Mul(555, w)
        n1 == Mul(9933, bs[2]) + Mul(751, w)
        n2 == Mul(9690, bs[3]) + Mul(1539, w)
        n3 == Mul(8665, bs[4]) + Mul(3105, w)
        n4 == Mul(5500, bs[5]) + Mul(5330, w)
        n5 == Mul(0 - 7616, bs[6]) - Mul(169, w)
    IN [b |-> <<n0, n1, n2, n3, n4, n5>>,
        sample |-> Mul(1100, n0 + n1 + n2 + n3 + n4 + n5 + Mul(5362, w))]

\* lines 28-38: the loop of createPinkNoise from index i on
RECURSIVE PinkLoop(_, _, _, _, _)
PinkLoop(rnd, i, bufferSize, bs, out) ==
    IF i < bufferSize
    THEN LET r == PinkStep(bs, White(rnd[i + 1]))
         IN PinkLoop(rnd, i + 1, bufferSize, r.b, Append(out, r.sample))
    ELSE [b |-> bs, data |-> out]

\* createPinkNoise with b0..b5 declared outside the function and line 24
\* run once: a call starts with the filter state the last call left
createPinkNoiseSharedFilter(sr, rnd) ==
    LET bufferSize == 2 * sr
        r == PinkLoop(rnd, 0, bufferSize, b, <<>>)
    IN [kind |-> "pink", length |-> bufferSize, data |-> r.data, loop |-> TRUE]

\* createPinkNoise: the buffer source it returns, with the length and the
\* channel data of its buffer
createPinkNoise(sr, rnd) ==
    LET bufferSize == 2 * sr
        r == PinkLoop(rnd, 0, bufferSize, ZeroFilter, <<>>)
    IN [kind |-> "pink", length |-> bufferSize, data |-> r.data, loop |-> TRUE]

\* lines 71-90 with connect(audioContext.destination) for connect(analyser)
StartedProducerToDestination(kind) ==
    [NewNode(kind) EXCEPT !.out = {"destination"}, !.started = TRUE]

\* lines 71-90 without start() (lines 77, 82, 87)
StartedProducerNoStart(kind) == [NewNode(kind) EXCEPT !.out = {"analyser"}]

\* lines 71-90: the producer is connected to the analyser and started
StartedProducer(kind) ==
    [NewNode(kind) EXCEPT !.out = {"analyser"}, !.started = TRUE]

\* lines 71-90 when the call named by fault throws: the producer as the
\* throw leaves it (0: it was not created)
FaultyProducer(kind, fault) ==
    CASE fault = "create" -> 0
      [] fault = "connect" -> NewNode(kind)
      [] fault = "start" -> [NewNode(kind) EXCEPT !.out = {"analyser"}]

\* the calls made after the creation, up to the one that throws
FaultOps(fault) ==
    IF fault = "connect" THEN <<"connect">> ELSE <<"connect", "start">>

\* the oscillator is assigned to source after start() (line 78), a noise
\* player before connect() (lines 80 and 85)
HeldAfterFault(kind, fault) == kind # "oscillator" /\ fault # "create"

\* the number of buffers created for the players ns
BufferCount(ns) ==
    IF ns = <<>> THEN 0
    ELSE CHOOSE k \in 0..Len(ns) :
             /\ \A n \in DOMAIN ns : ns[n].buffer <= k
             /\ k = 0 \/ \E n \in DOMAIN ns : ns[n].buffer = k

\* a noise function that keeps the buffer it generated first and hands it
\* to every later player of its kind
NoiseBufferCached(kind, ns) ==
    IF kind = "oscillator" THEN 0
    ELSE IF \E n \in DOMAIN ns : ns[n].kind = kind
    THEN ns[CHOOSE n \in DOMAIN ns : ns[n].kind = kind].buffer
    ELSE BufferCount(ns) + 1

\* createWhiteNoise line 10, createPinkNoise line 26: every call creates the
\* buffer of its player; an oscillator has none
NoiseBuffer(kind, ns) ==
    IF kind = "oscillator" THEN 0 ELSE BufferCount(ns) + 1

\* playTone from line 48 on: the code after the await of line 47.
\* st is audioContext.state, the inputs are the checked radio buttons,
\* err: the first frame throws, fault: the call of lines 71-90 that throws
\* the record of the invocation lists the calls it made, with a throw after
\* the call that threw
playToneBody(p, st, waveformInput, noiseTypeInput, err, fault) ==
    LET c == calls[p]
        ea == EnsureAnalyserOutput(st, analyserOut)
        t == stopTone(nodes, source)
        freq == parseFloat(c.arg)
        ops0 == <<"ensureAnalyserOutput", "stopTone">>
        id == Len(t.nodes) + 1
    IN /\ analyserOut' = ea.out
       /\ calls' = Remove(calls, p)
       /\ UNCHANGED <<mp3Source, mediaElementSourceCreated, audioPlayer, visualizerType>>
       /\ IF t.threw
          THEN /\ fault = "none"
               /\ nodes' = t.nodes
               /\ source' = t.source
               /\ lastDone' = Finish(c, ops0 \o <<"throw">>, ea.alerts + 1,
                                     ea.errors + t.errors + 1, "failed")
               /\ UNCHANGED <<currentVisualizerAnimation, frames, loopCount, canvas>>
          ELSE IF InvalidFrequency(freq) \/ waveformInput = "" \/ noiseTypeInput = ""
          THEN /\ fault = "none"
               /\ nodes' = t.nodes
               /\ source' = t.source
               /\ lastDone' = Finish(c, ops0 \o <<"validate", "throw">>, ea.alerts + 1,
                                     ea.errors + t.errors + 1, "invalid")
               /\ UNCHANGED <<currentVisualizerAnimation, frames, loopCount, canvas>>
          ELSE IF fault = "create"
          THEN /\ nodes' = t.nodes
               /\ source' = t.source
               /\ lastDone' = Finish(c, ops0 \o <<"validate", "create", "throw">>,
                                     ea.alerts + 1,
                                     ea.errors + t.errors + 1, "failed")
               /\ UNCHANGED <<currentVisualizerAnimation, frames, loopCount, canvas>>
          ELSE IF noiseTypeInput = "none" /\ ~isFinite(freq)
          THEN /\ fault = "none"
               /\ CanCreate
               /\ nodes' = Append(t.nodes, NewNode("oscillator"))
               /\ source' = t.source
               /\ lastDone' = Finish(c,
                      ops0 \o <<"validate", "create", "setValueAtTime", "throw">>,
                      ea.alerts + 1, ea.errors + t.errors + 1, "failed")
               /\ UNCHANGED <<currentVisualizerAnimation, frames, loopCount, canvas>>
          ELSE IF fault # "none"
          THEN /\ CanCreate
               /\ nodes' = Append(t.nodes,
                      [FaultyProducer(NoiseKind(noiseTypeInput), fault) EXCEPT
                           !.buffer = NoiseBuffer(NoiseKind(noiseTypeInput), t.nodes)])
               /\ source' = IF HeldAfterFault(NoiseKind(noiseTypeInput), fault)
                            THEN id ELSE t.source
               /\ lastDone' = Finish(c,
                      ops0 \o <<"validate", "create">> \o FaultOps(fault) \o <<"throw">>,
                      ea.alerts + 1, ea.errors + t.errors + 1, "failed")
               /\ UNCHANGED <<currentVisualizerAnimation, frames, loopCount, canvas>>
          ELSE /\ CanCreate
               /\ FrameRoom(visualizerType)
               /\ nodes' = Append(t.nodes,
                      [StartedProducer(NoiseKind(noiseTypeInput)) EXCEPT
                           !.buffer = NoiseBuffer(NoiseKind(noiseTypeInput), t.nodes)])
               /\ source' = id
               /\ SetV(visualize(VState, visualizerType, err))
               /\ lastDone' = Finish(c,
                      ops0 \o <<"validate", "create", "connect", "start", "visualize">>,
                      ea.alerts, ea.errors + t.errors, "ok")

\* the stop-tone button and the exported stopTone
StopTone ==
    /\ UNCHANGED pureVars
    /\ LET t == stopTone(nodes, source)
       IN /\ nodes' = t.nodes
          /\ source' = t.source
    /\ calls' = Note(calls, "stopTone")
    /\ lastDone' = Noted(lastDone, "stopTone")
    /\ UNCHANGED <<ctxState, analyserOut, mp3Source, mediaElementSourceCreated,
                   audioPlayer>>
    /\ UNCHANGED visVars

\* playTone up to its first await (line 47)
PlayTone(frequency) ==
    /\ UNCHANGED pureVars
    /\ CanCall
    /\ calls' = Append(Note(calls, "playTone"),
           NewCall("playTone", frequency, EnsureAudioContextActivePc(ctxState)))
    /\ lastDone' = Noted(lastDone, "playTone")
    /\ UNCHANGED <<ctxState, analyserOut>>
    /\ UNCHANGED audioVars
    /\ UNCHANGED visVars

\* --------------------------------------------------------- mp3Handler.js
\* AudioNode.disconnect(destination): throws when there is no such connection
NodeDisconnect(n, dest) ==
    IF dest \in n.out
    THEN [node |-> [n EXCEPT !.out = n.out \ {dest}], threw |-> FALSE]
    ELSE [node |-> n, threw |-> TRUE]

\* pause() and load() of the audio element reject its pending play() promises
AbortPlay(cs) ==
    [q \in DOMAIN cs |->
        IF cs[q].pc = "play" THEN [cs[q] EXCEPT !.pc = "playAborted"] ELSE cs[q]]

\* setupAudioNodes from line 343 to the await of line 371
setupAudioNodesBody(p, st) ==
    LET c == calls[p]
        ea == EnsureAnalyserOutput(st, analyserOut)
        ops0 == <<"ensureAnalyserOutput">>
        id == Len(nodes) + 1
    IN /\ analyserOut' = ea.out
       /\ UNCHANGED <<source>>
       /\ UNCHANGED visVars
       /\ IF audioPlayer.src = ""
          THEN /\ calls' = Remove(calls, p)
               /\ lastDone' = Finish(c, ops0, ea.alerts, ea.errors, "noop")
               /\ UNCHANGED <<nodes, mp3Source, mediaElementSourceCreated, audioPlayer>>
          ELSE IF ~mediaElementSourceCreated
          THEN IF audioPlayer.bound
               THEN \* createMediaElementSource throws InvalidStateError
                    /\ calls' = Remove(calls, p)
                    /\ lastDone' = Finish(c, ops0 \o <<"throw">>, ea.alerts + 1,
                                          ea.errors + 1, "failed")
                    /\ UNCHANGED <<nodes, mp3Source, mediaElementSourceCreated,
                                   audioPlayer>>
               ELSE /\ CanCreate
                    /\ nodes' = Append(nodes,
                           [NewNode("media") EXCEPT !.out = {"analyser"}])
                    /\ mp3Source' = id
                    /\ mediaElementSourceCreated' = TRUE
                    /\ audioPlayer' = [audioPlayer EXCEPT !.bound = TRUE]
                    /\ calls' = [calls EXCEPT ![p] =
                           Advance(c, "play", ops0 \o <<"create", "connect", "play">>,
                                   ea.alerts, ea.errors)]
                    /\ UNCHANGED lastDone
          ELSE IF mp3Source # 0
          THEN /\ nodes' = [nodes EXCEPT ![mp3Source].out = @ \cup {"analyser"}]
               /\ calls' = [calls EXCEPT ![p] =
                      Advance(c, "play", ops0 \o <<"reuse", "connect", "play">>,
                              ea.alerts, ea.errors)]
               /\ UNCHANGED <<mp3Source, mediaElementSourceCreated, audioPlayer,
                              lastDone>>
          ELSE /\ calls' = Remove(calls, p)
               /\ lastDone' = Finish(c, ops0, ea.alerts, ea.errors, "noop")
               /\ UNCHANGED <<nodes, mp3Source, mediaElementSourceCreated, audioPlayer>>

\* setupAudioNodes up to its first await (line 342)
SetupAudioNodes ==
    /\ UNCHANGED pureVars
    /\ CanCall
    /\ calls' = Append(Note(calls, "setupAudioNodes"),
           NewCall("setupAudioNodes", NoArg, EnsureAudioContextActivePc(ctxState)))
    /\ lastDone' = Noted(lastDone, "setupAudioNodes")
    /\ UNCHANGED <<ctxState, analyserOut>>
    /\ UNCHANGED audioVars
    /\ UNCHANGED visVars

\* setupAudioNodes from the await of line 371 to its end; ok: play() fulfilled
SetupAudioNodesPlayed(p, ok, err) ==
    /\ UNCHANGED pureVars
    /\ NoMicrotask
    /\ p \in DOMAIN calls
    /\ calls[p].fn = "setupAudioNodes"
    /\ calls[p].pc = "play" \/ (calls[p].pc = "playAborted" /\ ~ok)
    /\ FrameRoom(visualizerType)
    /\ audioPlayer' = [audioPlayer EXCEPT !.playing = IF ok THEN TRUE ELSE @]
    /\ SetV(visualize(VState, visualizerType, err))
    /\ calls' = Remove(calls, p)
    /\ lastDone' = Finish(calls[p], <<"visualize">>, IF ok THEN 0 ELSE 1,
                          IF ok THEN 0 ELSE 1, IF ok THEN "ok" ELSE "blocked")
    /\ UNCHANGED <<ctxState, analyserOut, nodes, source, mp3Source,
                   mediaElementSourceCreated, visualizerType>>

stopMp3 ==
    /\ UNCHANGED pureVars
    /\ frames' = IF currentVisualizerAnimation # 0
                 THEN CancelAnimationFrame(frames, currentVisualizerAnimation)
                 ELSE frames
    /\ IF mp3Source # 0
       THEN /\ audioPlayer' = [audioPlayer EXCEPT !.playing = FALSE]
            /\ nodes' = [nodes EXCEPT ![mp3Source] =
                             NodeDisconnect(nodes[mp3Source], "analyser").node]
            /\ mp3Source' = 0
            /\ calls' = Note(AbortPlay(calls), "stopMp3")
       ELSE /\ calls' = Note(calls, "stopMp3")
            /\ UNCHANGED <<audioPlayer, nodes, mp3Source>>
    /\ lastDone' = Noted(lastDone, "stopMp3")
    /\ UNCHANGED <<ctxState, analyserOut, source, mediaElementSourceCreated,
                   currentVisualizerAnimation, visualizerType, loopCount, canvas>>

clearMp3 ==
    /\ UNCHANGED pureVars
    /\ audioPlayer' = [audioPlayer EXCEPT !.src = "", !.playing = FALSE]
    /\ IF mp3Source # 0
       THEN /\ nodes' = [nodes EXCEPT ![mp3Source] =
                             NodeDisconnect(nodes[mp3Source], "analyser").node]
            /\ mp3Source' = 0
       ELSE UNCHANGED <<nodes, mp3Source>>
    /\ calls' = Note(AbortPlay(calls), "clearMp3")
    /\ lastDone' = Noted(lastDone, "clearMp3")
    /\ mediaElementSourceCreated' = FALSE
    /\ UNCHANGED <<ctxState, analyserOut, source>>
    /\ UNCHANGED visVars

\* -------------------------------------------------------------- script.js
\* the change listeners of the visualizer select: visualizer.js sets
\* visualizerType (registered first), script.js calls visualize()
VisualizerChange(type, err) ==
    /\ UNCHANGED pureVars
    /\ NoMicrotask
    /\ type # visualizerType
    /\ FrameRoom(type)
    /\ visualizerType' = type
    /\ SetV(visualize(VState, type, err))
    /\ calls' = Note(calls, "visualizerChange")
    /\ lastDone' = Noted(lastDone, "visualizerChange")
    /\ UNCHANGED <<ctxState, analyserOut>>
    /\ UNCHANGED audioVars

\* the change listener of the uploader up to its await (line 573), for a
\* file that passes the test of line 553
Mp3Upload ==
    /\ UNCHANGED pureVars
    /\ CanCall
    /\ NoMicrotask
    /\ calls' = Append(Note(calls, "mp3Upload"),
           NewCall("mp3Upload", NoArg, EnsureAudioContextActivePc(ctxState)))
    /\ lastDone' = Noted(lastDone, "mp3Upload")
    /\ UNCHANGED <<ctxState, analyserOut>>
    /\ UNCHANGED audioVars
    /\ UNCHANGED visVars

\* the listener from line 575 on: the element gets the new source and loads it
mp3UploadBody(p) ==
    /\ audioPlayer' = [audioPlayer EXCEPT !.src = "blob", !.playing = FALSE]
    /\ calls' = Remove(AbortPlay(calls), p)
    /\ lastDone' = Finish(calls[p], <<"load">>, 0, 0, "ok")
    /\ UNCHANGED <<analyserOut, nodes, source, mp3Source, mediaElementSourceCreated>>
    /\ UNCHANGED visVars

\* ---------------------------------------------------------- the event loop
\* the code of invocation p after the await of ensureAudioContextActive;
\* W, N: the radio buttons that may be checked, E: whether a frame may throw,
\* F: the calls of lines 71-90 of playTone that may throw
Continue(p, st, W, N, E, F) ==
    CASE calls[p].fn = "playTone" ->
            \E w \in W, n \in N, err \in E, fault \in F :
                playToneBody(p, st, w, n, err, fault)
      [] calls[p].fn = "setupAudioNodes" -> setupAudioNodesBody(p, st)
      [] calls[p].fn = "mp3Upload" -> mp3UploadBody(p)

\* playTone with stopTone() moved before the await of line 47: the tone is
\* stopped although the resume is rejected
ResumeRejectedAfterStop(p) ==
    /\ UNCHANGED pureVars
    /\ NoMicrotask
    /\ p \in DOMAIN calls
    /\ calls[p].pc = "resume"
    /\ ctxState # "running"
    /\ calls' = Remove(calls, p)
    /\ lastDone' = Finish(calls[p], <<"resumeRejected">>, 2, 2, "unavailable")
    /\ nodes' = stopTone(nodes, source).nodes
    /\ source' = 0
    /\ UNCHANGED <<ctxState, analyserOut, mp3Source, mediaElementSourceCreated,
                   audioPlayer>>
    /\ UNCHANGED visVars

\* ensureAudioContextActive lines 16-19 and the catch block of the caller:
\* each of the two logs the error and alerts
ResumeRejected(p) ==
    /\ UNCHANGED pureVars
    /\ NoMicrotask
    /\ p \in DOMAIN calls
    /\ calls[p].pc = "resume"
    /\ ctxState # "running"
    /\ calls' = Remove(calls, p)
    /\ lastDone' = Finish(calls[p], <<"resumeRejected">>, 2, 2, "unavailable")
    /\ UNCHANGED <<ctxState, analyserOut>>
    /\ UNCHANGED audioVars
    /\ UNCHANGED visVars

\* the host fulfils the promise of audioContext.resume()
ResumeFulfilled(p, W, N, E, F) ==
    /\ UNCHANGED pureVars
    /\ NoMicrotask
    /\ p \in DOMAIN calls
    /\ calls[p].pc = "resume"
    /\ ctxState # "closed"
    /\ ctxState' = "running"
    /\ Continue(p, "running", W, N, E, F)

\* the oldest continuation of the microtask queue runs
Microtask(p, W, N, E, F) ==
    /\ UNCHANGED pureVars
    /\ p \in DOMAIN calls
    /\ calls[p].pc = "tick"
    /\ \A q \in 1..(p - 1) : calls[q].pc # "tick"
    /\ UNCHANGED ctxState
    /\ Continue(p, ctxState, W, N, E, F)

\* the host runs the callback of a pending animation frame: the frame has
\* fired, or failed when its callback threw and logged the error (line 122)
AnimationFrame(id, err) ==
    /\ UNCHANGED pureVars
    /\ NoMicrotask
    /\ id \in DOMAIN frames
    /\ frames[id].st = "pending"
    /\ Len(frames) < MaxFrames
    /\ SetV(draw([VState EXCEPT !.frames =
                      [frames EXCEPT ![id].st = IF err THEN "failed" ELSE "fired"]],
                 frames[id].loop, frames[id].mode, err))
    /\ UNCHANGED <<ctxState, analyserOut, calls, lastDone, visualizerType>>
    /\ UNCHANGED audioVars

\* the host suspends the context (autoplay policy, power saving)
HostSuspend ==
    /\ UNCHANGED pureVars
    /\ NoMicrotask
    /\ ctxState = "running"
    /\ ctxState' = "suspended"
    /\ UNCHANGED <<analyserOut, calls, lastDone>>
    /\ UNCHANGED audioVars
    /\ UNCHANGED visVars

\* the context is closed: the state ensureAnalyserOutput tests for
HostClose ==
    /\ UNCHANGED pureVars
    /\ NoMicrotask
    /\ ctxState # "closed"
    /\ ctxState' = "closed"
    /\ UNCHANGED <<analyserOut, calls, lastDone>>
    /\ UNCHANGED audioVars
    /\ UNCHANGED visVars

\* --------------------------------------------------- the noise functions
\* a context with any of the sample rates, and the values Math.random()
\* will return to a call of a noise function
InitNoise ==
    /\ ctxState = "running"
    /\ analyserOut = {"destination"}
    /\ nodes = <<>>
    /\ source = 0
    /\ mp3Source = 0
    /\ mediaElementSourceCreated = FALSE
    /\ audioPlayer = [src |-> "", playing |-> FALSE, bound |-> FALSE]
    /\ calls = <<>>
    /\ lastDone = NoCall
    /\ currentVisualizerAnimation = 0
    /\ visualizerType = "bar"
    /\ frames = <<>>
    /\ loopCount = 0
    /\ canvas = "blank"
    /\ sampleRate \in SampleRates
    /\ random \in [1..(2 * sampleRate) -> RandomValues]
    /\ b = ZeroFilter
    /\ noiseBuffers = <<>>
    /\ segments = 60
    /\ bufferLength = 1024
    /\ rotation = 0
    /\ lowest = <<>>
    /\ points = <<>>

\* one call of createWhiteNoise
CreateWhiteNoise ==
    /\ Len(noiseBuffers) < MaxBuffers
    /\ noiseBuffers' = Append(noiseBuffers, createWhiteNoise(sampleRate, random))
    /\ UNCHANGED <<sampleRate, random, b>>
    /\ UNCHANGED kaleidoscopeVars
    /\ UNCHANGED <<ctxState, analyserOut, calls, lastDone>>
    /\ UNCHANGED audioVars
    /\ UNCHANGED visVars

\* one call of createPinkNoise; b0..b5 end with the values of the last pass
CreatePinkNoise ==
    /\ Len(noiseBuffers) < MaxBuffers
    /\ noiseBuffers' = Append(noiseBuffers, createPinkNoise(sampleRate, random))
    /\ b' = PinkLoop(random, 0, 2 * sampleRate, ZeroFilter, <<>>).b
    /\ UNCHANGED <<sampleRate, random>>
    /\ UNCHANGED kaleidoscopeVars
    /\ UNCHANGED <<ctxState, analyserOut, calls, lastDone>>
    /\ UNCHANGED audioVars
    /\ UNCHANGED visVars

NextNoise == CreateWhiteNoise \/ CreatePinkNoise

SpecNoise == InitNoise /\ [][NextNoise]_vars

\* ------------------------------------------------ the kaleidoscope loops
\* the closure draw of drawKaleidoscope and drawKaleidoscopeB with
\* rotation = dataArray[0] / 1000 on its last line
kaleidoscopeDrawNoSum(seg, len, rot, d0) ==
    [points |-> [i \in 1..seg |-> (i - 1) % len], rotation |-> d0]

\* the closure draw of drawKaleidoscope (lines 147-178) and of
\* drawKaleidoscopeB (200-231): the bin each point i = 0..segments-1 reads,
\* and the rotation after the frame; d0 is dataArray[0]
kaleidoscopeDraw(seg, len, rot, d0) ==
    [points |-> [i \in 1..seg |-> (i - 1) % len], rotation |-> rot + d0]

InitKaleidoscope ==
    /\ ctxState = "running"
    /\ analyserOut = {"destination"}
    /\ nodes = <<>>
    /\ source = 0
    /\ mp3Source = 0
    /\ mediaElementSourceCreated = FALSE
    /\ audioPlayer = [src |-> "", playing |-> FALSE, bound |-> FALSE]
    /\ calls = <<>>
    /\ lastDone = NoCall
    /\ currentVisualizerAnimation = 0
    /\ visualizerType = "bar"
    /\ frames = <<>>
    /\ loopCount = 0
    /\ canvas = "blank"
    /\ sampleRate = 1
    /\ random = <<>>
    /\ b = ZeroFilter
    /\ noiseBuffers = <<>>
    /\ segments = 60
    /\ bufferLength \in BinCounts
    /\ rotation = 0
    /\ lowest = <<>>
    /\ points = <<>>

\* drawKaleidoscope (seg = 60) or drawKaleidoscopeB (seg = 120) is called:
\* a new closure with rotation = 0, and its first draw()
DrawKaleidoscope(seg, d0) ==
    /\ LET r == kaleidoscopeDraw(seg, bufferLength, 0, d0)
       IN /\ rotation' = r.rotation
          /\ points' = r.points
    /\ segments' = seg
    /\ lowest' = <<d0>>
    /\ UNCHANGED bufferLength
    /\ UNCHANGED noiseVars
    /\ UNCHANGED <<ctxState, analyserOut, calls, lastDone>>
    /\ UNCHANGED audioVars
    /\ UNCHANGED visVars

\* the host runs the next frame of the loop
KaleidoscopeFrame(d0) ==
    /\ lowest # <<>>
    /\ Len(lowest) < MaxLoopFrames
    /\ LET r == kaleidoscopeDraw(segments, bufferLength, rotation, d0)
       IN /\ rotation' = r.rotation
          /\ points' = r.points
    /\ lowest' = Append(lowest, d0)
    /\ UNCHANGED <<segments, bufferLength>>
    /\ UNCHANGED noiseVars
    /\ UNCHANGED <<ctxState, analyserOut, calls, lastDone>>
    /\ UNCHANGED audioVars
    /\ UNCHANGED visVars

NextKaleidoscope ==
    \/ \E seg \in {60, 120}, d0 \in Magnitudes : DrawKaleidoscope(seg, d0)
    \/ \E d0 \in Magnitudes : KaleidoscopeFrame(d0)

SpecKaleidoscope == InitKaleidoscope /\ [][NextKaleidoscope]_vars

\* ------------------------------------------------------- specifications
\* the tone generator: the arguments of playTone, a missing selection, the
\* oscillator and a noise
NextTone ==
    \/ \E f \in FreqInputs : PlayTone(f)
    \/ StopTone
    \/ \E p \in DOMAIN calls : ResumeRejected(p)
    \/ \E p \in DOMAIN calls :
           ResumeFulfilled(p, WaveformInputs, {"", "none", "pink"}, {FALSE}, {"none"})
    \/ \E p \in DOMAIN calls :
           Microtask(p, WaveformInputs, {"", "none", "pink"}, {FALSE}, {"none"})
    \/ HostClose

SpecTone == Init /\ [][NextTone]_vars

\* the tone generator and the media player together, one tone argument
NextSource ==
    \/ Len(calls) < MaxOverlap /\ PlayTone(A440)
    \/ StopTone
    \/ Len(calls) < MaxOverlap /\ SetupAudioNodes
    \/ \E p \in DOMAIN calls, ok \in BOOLEAN : SetupAudioNodesPlayed(p, ok, FALSE)
    \/ stopMp3
    \/ clearMp3
    \/ Len(calls) < MaxOverlap /\ Mp3Upload
    \/ \E p \in DOMAIN calls : ResumeRejected(p)
    \/ \E p \in DOMAIN calls : ResumeFulfilled(p, {"sine"}, {"white"}, {FALSE}, {"none"})
    \/ \E p \in DOMAIN calls : Microtask(p, {"sine"}, {"white"}, {FALSE}, {"none"})
    \/ HostSuspend

SpecSource == Init /\ [][NextSource]_vars

\* the frame loop: every draw mode and frame error, one tone
NextFrames ==
    \/ Len(calls) < MaxOverlap /\ PlayTone(A440)
    \/ StopTone
    \/ stopMp3
    \/ \E t \in VisualizerTypes, err \in BOOLEAN : VisualizerChange(t, err)
    \/ \E p \in DOMAIN calls : ResumeFulfilled(p, {"sine"}, {"none"}, BOOLEAN, {"none"})
    \/ \E p \in DOMAIN calls : Microtask(p, {"sine"}, {"none"}, BOOLEAN, {"none"})
    \/ \E id \in DOMAIN frames, err \in BOOLEAN : AnimationFrame(id, err)

SpecFrames == Init /\ [][NextFrames]_vars

\* the calls of the Web Audio API that throw: one tone argument, the
\* oscillator and a noise, every fault of lines 71-90
NextFaults ==
    \/ PlayTone(A440)
    \/ StopTone
    \/ stopMp3
    \/ \E p \in DOMAIN calls :
           ResumeFulfilled(p, {"sine"}, {"none", "white"}, {FALSE}, Faults)
    \/ \E p \in DOMAIN calls :
           Microtask(p, {"sine"}, {"none", "white"}, {FALSE}, Faults)

SpecFaults == Init /\ [][NextFaults]_vars

\* the oscillator under every visualizer mode, nothing throws
NextModes ==
    \/ PlayTone(A440)
    \/ StopTone
    \/ \E t \in VisualizerTypes : VisualizerChange(t, FALSE)
    \/ \E p \in DOMAIN calls :
           ResumeFulfilled(p, {"sine"}, {"none"}, {FALSE}, {"none"})
    \/ \E p \in DOMAIN calls :
           Microtask(p, {"sine"}, {"none"}, {FALSE}, {"none"})
    \/ \E id \in DOMAIN frames : AnimationFrame(id, FALSE)

SpecModes == Init /\ [][NextModes]_vars

\* the audio graph: the oscillator, a noise player, the media element and a
\* closed context; nothing throws
NextGraph ==
    \/ Len(calls) < MaxOverlap /\ PlayTone(A440)
    \/ StopTone
    \/ Len(calls) < MaxOverlap /\ Mp3Upload
    \/ Len(calls) < MaxOverlap /\ SetupAudioNodes
    \/ \E p \in DOMAIN calls : SetupAudioNodesPlayed(p, TRUE, FALSE)
    \/ stopMp3
    \/ clearMp3
    \/ \E p \in DOMAIN calls :
           ResumeFulfilled(p, {"sine"}, {"none", "white"}, {FALSE}, {"none"})
    \/ \E p \in DOMAIN calls :
           Microtask(p, {"sine"}, {"none", "white"}, {FALSE}, {"none"})
    \/ HostClose

SpecGraph == Init /\ [][NextGraph]_vars

Next ==
    NextTone \/ NextSource \/ NextFrames \/ NextFaults \/ NextModes \/ NextGraph

Spec == Init /\ [][Next]_vars

\* ------------------------------------------------------------ properties
IsTone(n) == n.kind \in {"oscillator", "white", "pink"}

\* the producers that feed the analyser: connected, and not stopped
Feeding(ns) == {n \in DOMAIN ns : "analyser" \in ns[n].out /\ ~ns[n].stopped}

\* this step is the return of invocation p
Returns(p) ==
    /\ p \in DOMAIN calls
    /\ calls' \in {Remove(calls, p), Remove(AbortPlay(calls), p)}
    /\ lastDone'.fn = calls[p].fn

\* this step runs the code of invocation p that follows the await of
\* ensureAudioContextActive, and the resume was not rejected
BodyRuns(p) ==
    /\ p \in DOMAIN calls
    /\ calls[p].pc \in {"resume", "tick"}
    /\ \/ Returns(p) /\ lastDone'.outcome # "unavailable"
       \/ Len(calls') = Len(calls) /\ calls'[p].pc = "play"

\* C1: at most one producer (oscillator, noise player or media source)
\* feeds the analysis node in every reachable state; a producer that was
\* stopped is not counted, though stop() leaves it connected
C1_AtMostOneProducer == Cardinality(Feeding(nodes)) <= 1

\* the argument is non-finite or not above 0
NotPositiveFinite(a) == parseFloat(a).cls # "num" \/ parseFloat(a).v <= 0

\* C2: a playTone whose frequency is non-finite or <= 0, or that finds no
\* checked waveform or noise type, leaves the prior source untouched: the
\* producer that source held before the call is still held, and is as it was
C2_InvalidLeavesSourceUntouched ==
    [][\A p \in DOMAIN calls :
          (/\ calls[p].fn = "playTone"
           /\ BodyRuns(p)
           /\ NotPositiveFinite(calls[p].arg) \/ lastDone'.outcome = "invalid")
          => (/\ source' = source
              /\ source # 0 => nodes'[source] = nodes[source])]_vars

\* C3: when a playTone with a valid frequency and a stopTone invoked right
\* after it have both completed, source is null and no tone or noise
\* producer is connected to the analyser
C3_PlayThenStopIsIdle ==
    (/\ lastDone.fn = "playTone"
     /\ ~NotPositiveFinite(lastDone.arg)
     /\ lastDone.outcome = "ok"
     /\ lastDone.since = "stopTone"
     /\ calls = <<>>)
    => (/\ source = 0
        /\ \A n \in DOMAIN nodes : IsTone(nodes[n]) => "analyser" \notin nodes[n].out)

\* this step connects a producer to the analyser
Connects ==
    \E n \in DOMAIN nodes' :
        /\ "analyser" \in nodes'[n].out
        /\ n \in DOMAIN nodes => "analyser" \notin nodes[n].out

\* C4: in the step that connects a new tone or noise producer, every tone
\* or noise producer that was playing before the step is stopped and
\* disconnected from the analyser
C4_StopBeforeSwap ==
    [][Connects =>
          \A n \in DOMAIN nodes :
              (IsTone(nodes[n]) /\ nodes[n].started /\ ~nodes[n].stopped)
              => (nodes'[n].stopped /\ "analyser" \notin nodes'[n].out)]_vars

\* C5: a playTone whose resume is rejected creates, connects and starts no
\* producer and leaves source, the graph and the frame loop as they were
C5_ResumeRejectedChangesNothing ==
    [][\A p \in DOMAIN calls :
          (/\ calls[p].fn = "playTone"
           /\ Returns(p)
           /\ lastDone'.outcome = "unavailable")
          => (/\ nodes' = nodes
              /\ source' = source
              /\ analyserOut' = analyserOut
              /\ frames' = frames
              /\ currentVisualizerAnimation' = currentVisualizerAnimation)]_vars

\* a rejected resume that left a playing tone alone
C5_Witness ==
    /\ lastDone.fn = "playTone"
    /\ lastDone.outcome = "unavailable"
    /\ source # 0
    /\ nodes[source].started /\ ~nodes[source].stopped

GraphOps == {"stopTone", "create", "connect", "start", "reuse", "play", "visualize"}

\* the graph operations of an invocation come after its
\* ensureAudioContextActive and its ensureAnalyserOutput, in that order
OpsInOrder(ops) ==
    \A i \in DOMAIN ops :
        ops[i] \in GraphOps =>
            \E j \in 1..(i - 1), k \in 1..(i - 1) :
                /\ k < j
                /\ ops[k] = "ensureAudioContextActive"
                /\ ops[j] = "ensureAnalyserOutput"

\* C6: an activation (playTone, setupAudioNodes) touches the graph only
\* after its resume step and then its analysis-path repair: an invocation
\* still waiting for the resume has done no graph operation, and a step that
\* connects a producer ends with the engine not suspended and the analyser
\* connected to the destination
C6_ResumeThenRepairThenProducer ==
    [][/\ \A p \in DOMAIN calls' :
              /\ OpsInOrder(calls'[p].ops)
              /\ calls'[p].pc \in {"resume", "tick"} =>
                     \A i \in DOMAIN calls'[p].ops : calls'[p].ops[i] \notin GraphOps
       /\ OpsInOrder(lastDone'.ops)
       /\ (Connects \/ Len(nodes') > Len(nodes)) =>
              (ctxState' # "suspended" /\ "destination" \in analyserOut')]_vars

\* a tone and a media source were both connected by activations that had
\* to resume the engine first
C6_Witness ==
    /\ \E n \in DOMAIN nodes : nodes[n].kind = "media" /\ "analyser" \in nodes[n].out
    /\ \E n \in DOMAIN nodes : IsTone(nodes[n]) /\ "analyser" \in nodes[n].out
    /\ lastDone.outcome = "ok"
    /\ \E i \in DOMAIN lastDone.ops : lastDone.ops[i] = "resume"
    /\ \E i \in DOMAIN lastDone.ops : lastDone.ops[i] = "connect"

\* C7: a playTone with a valid frequency that runs ensureAnalyserOutput on
\* a closed engine stops there: it creates and connects no producer and
\* does not end as a success
C7_ClosedEngineStopsActivation ==
    [][\A p \in DOMAIN calls :
          (/\ calls[p].fn = "playTone"
           /\ ~NotPositiveFinite(calls[p].arg)
           /\ BodyRuns(p)
           /\ ctxState' = "closed")
          => (/\ Len(nodes') = Len(nodes)
              /\ ~Connects
              /\ lastDone'.outcome # "ok")]_vars

\* C8: no frame of a cancelled loop runs: a pending frame belongs to the
\* loop started last and to the current mode, and a cancelled frame is the
\* last frame its loop ever requested
C8_NoFrameAfterCancel ==
    \A i \in DOMAIN frames :
        /\ frames[i].st = "pending" =>
               (frames[i].loop = loopCount /\ frames[i].mode = visualizerType)
        /\ frames[i].st = "cancelled" =>
               \A j \in DOMAIN frames : frames[j].loop = frames[i].loop => j <= i

\* a mode switch cancelled the frame of a loop that had drawn, and the loop
\* of the new mode has drawn a frame since
C8_Witness ==
    \E h, i, j \in DOMAIN frames :
        /\ h < i /\ i < j
        /\ frames[h].st = "fired" /\ frames[h].loop = frames[i].loop
        /\ frames[i].st = "cancelled"
        /\ frames[j].st = "fired"
        /\ frames[j].loop # frames[i].loop
        /\ frames[j].mode # frames[i].mode

\* C9: at most one frame callback is pending, and it is the one
\* currentVisualizerAnimation holds
C9_OnePendingFrame ==
    \A i \in DOMAIN frames : frames[i].st = "pending" => i = currentVisualizerAnimation

\* a frame is pending after frames have fired and a frame was cancelled
C9_Witness ==
    /\ \E i \in DOMAIN frames : frames[i].st = "pending"
    /\ \E i \in DOMAIN frames : frames[i].st = "fired"
    /\ \E i \in DOMAIN frames : frames[i].st = "cancelled"

\* C10: an activation of the media element that was activated before and
\* not reset since wraps nothing new and ends with the producer of the
\* first activation held and connected to the analyser
C10_ReactivationReusesBinding ==
    [][\A p \in DOMAIN calls :
          (/\ calls[p].fn = "setupAudioNodes"
           /\ BodyRuns(p)
           /\ mediaElementSourceCreated
           /\ audioPlayer.src # "")
          => (/\ Len(nodes') = Len(nodes)
              /\ mp3Source' # 0
              /\ "analyser" \in nodes'[mp3Source'].out)]_vars

\* C11: clearMp3 ends with mp3Source null, the flag cleared and no media
\* producer connected to the analyser, and the next setupAudioNodes on a
\* loaded element wraps the element anew: it creates a media producer, holds
\* it in mp3Source and connects it to the analyser
C11_ResetReleasesBinding ==
    [][/\ clearMp3 =>
              /\ mp3Source' = 0
              /\ ~mediaElementSourceCreated'
              /\ \A n \in DOMAIN nodes' :
                     nodes'[n].kind = "media" => "analyser" \notin nodes'[n].out
       /\ \A p \in DOMAIN calls :
              (/\ calls[p].fn = "setupAudioNodes"
               /\ BodyRuns(p)
               /\ ~mediaElementSourceCreated
               /\ audioPlayer.src # "")
              => (/\ Len(nodes') = Len(nodes) + 1
                  /\ mp3Source' = Len(nodes')
                  /\ nodes'[mp3Source'].kind = "media"
                  /\ "analyser" \in nodes'[mp3Source'].out)]_vars

\* the state of the program without the record of its invocations
progVars ==
    <<ctxState, analyserOut, nodes, source, mp3Source, mediaElementSourceCreated,
      audioPlayer, currentVisualizerAnimation, visualizerType, frames, loopCount,
      canvas>>

\* C12: stopTone and stopMp3 are idempotent: each ends with its producer
\* reference null, also when stop() or disconnect() threw, and a call that
\* finds the reference null already changes nothing
C12_StopIsIdempotent ==
    [][/\ StopTone => (source' = 0 /\ (source = 0 => UNCHANGED progVars))
       /\ stopMp3 => (mp3Source' = 0 /\ (mp3Source = 0 => UNCHANGED progVars))]_vars

\* the calls of a returned invocation: op was made
Did(c, op) == \E i \in DOMAIN c.ops : c.ops[i] = op

\* C13: when the stop() of the retiring producer throws inside a playTone,
\* the error is logged and the playTone goes on: it drops the old reference,
\* validates its inputs and creates the new producer, and any failure it
\* reports comes from a later call
C13_TeardownErrorDoesNotBlock ==
    [][\A p \in DOMAIN calls :
          (/\ calls[p].fn = "playTone"
           /\ BodyRuns(p)
           /\ source # 0
           /\ NodeStop(nodes[source]).threw)
          => (/\ lastDone'.errors >= 1
              /\ source' # source
              /\ Did(lastDone', "validate")
              /\ Did(lastDone', "create")
              /\ lastDone'.outcome = "ok" =>
                     (/\ source' = Len(nodes')
                      /\ nodes'[source'].started
                      /\ "analyser" \in nodes'[source'].out))]_vars

\* a playTone that started its producer although the stop() of the producer
\* it retired threw
C13_Witness ==
    /\ lastDone.fn = "playTone"
    /\ lastDone.outcome = "ok"
    /\ lastDone.errors >= 1
    /\ source # 0
    /\ nodes[source].started
    /\ \E n \in DOMAIN nodes : n # source /\ ~nodes[n].started

\* C14: stopTone and stopMp3 leave the visualization loop as it was: the
\* frame handle, the state of every requested frame and the draw mode are
\* the same after the call as before it
C14_StopLeavesLoopAlone ==
    [][(StopTone \/ stopMp3) =>
          UNCHANGED <<currentVisualizerAnimation, frames, visualizerType,
                      loopCount>>]_vars

\* no producer is active: no tone, noise or media producer is held
NoProducer == source = 0 /\ mp3Source = 0

\* C15: no frame renders after a stop left no producer active: once a
\* producer was created, a frame callback that the host runs finds a
\* producer held by source or mp3Source
C15_NoFrameWithoutProducer ==
    [][(/\ nodes # <<>>
        /\ \E id \in DOMAIN frames :
               frames[id].st = "pending" /\ frames'[id].st \in {"fired", "failed"})
          => ~NoProducer]_vars

\* how the promise of a returned playTone or setupAudioNodes settles: each
\* function catches every error of its body and does not rethrow it
Settled(c) == IF c.outcome = "pending" THEN "pending" ELSE "fulfilled"

\* C16: a playTone whose creation, connect() or start() of the new producer
\* throws reports the failure to its caller, its promise rejects, and it
\* returns with source null
C16_FailedActivationSurfacesAndIsIdle ==
    [][\A p \in DOMAIN calls :
          (/\ calls[p].fn = "playTone"
           /\ Returns(p)
           /\ lastDone'.outcome = "failed")
          => (/\ Settled(lastDone') = "rejected"
              /\ source' = 0)]_vars

\* C17: a setupAudioNodes whose play() is rejected leaves nothing active: it
\* returns with no media producer connected to the analyser and without
\* having started a visualization loop
C17_BlockedPlayLeavesIdle ==
    [][\A p \in DOMAIN calls :
          (/\ calls[p].fn = "setupAudioNodes"
           /\ Returns(p)
           /\ lastDone'.outcome = "blocked")
          => (/\ \A n \in DOMAIN nodes' :
                     nodes'[n].kind = "media" => "analyser" \notin nodes'[n].out
              /\ frames' = frames
              /\ loopCount' = loopCount)]_vars

\* the outcomes of an activation that ended in its catch block
ErrorOutcomes == {"unavailable", "invalid", "failed", "blocked"}

\* C18: an activation (playTone, setupAudioNodes) that ended with an error
\* alerted the user exactly once and logged the error at least once; so did
\* one whose resume was rejected
C18_OneAlertPerError ==
    (/\ lastDone.fn \in {"playTone", "setupAudioNodes"}
     /\ lastDone.outcome \in ErrorOutcomes)
    => (lastDone.alerts = 1 /\ lastDone.errors >= 1)

\* C19: a frame callback that throws ends its loop: the frame it had
\* requested before the throw is cancelled, no later frame belongs to that
\* loop, and the loop has no second failed frame
C19_FailedFrameCancelsLoop ==
    \A i \in DOMAIN frames :
        frames[i].st = "failed" =>
            /\ i + 1 \in DOMAIN frames
            /\ frames[i + 1] = [frames[i] EXCEPT !.st = "cancelled"]
            /\ \A j \in DOMAIN frames :
                   (j # i /\ frames[j].loop = frames[i].loop) =>
                       (j <= i + 1 /\ frames[j].st # "failed")

\* a loop drew a frame, its next frame threw, and a loop started later has
\* its frame pending
C19_Witness ==
    \E h, i, j \in DOMAIN frames :
        /\ h < i /\ i + 1 < j
        /\ frames[h].st = "fired" /\ frames[h].loop = frames[i].loop
        /\ frames[i].st = "failed"
        /\ frames[i + 1].st = "cancelled"
        /\ frames[j].loop # frames[i].loop
        /\ frames[j].st = "pending"

\* the oscillators that sound: connected to the analyser, started and not
\* stopped (stop() leaves a stopped oscillator connected)
Sounding(ns) ==
    {n \in DOMAIN ns : /\ ns[n].kind = "oscillator"
                       /\ "analyser" \in ns[n].out
                       /\ ns[n].started
                       /\ ~ns[n].stopped}

C21_OneAnalysisPath ==
    /\ "destination" \in analyserOut
    /\ \A n \in DOMAIN nodes : nodes[n].out \subseteq {"analyser"}

\* an oscillator or noise player and the media source are both connected
C21_Witness ==
    /\ \E n \in DOMAIN nodes : nodes[n].kind = "media" /\ nodes[n].out = {"analyser"}
    /\ \E n \in DOMAIN nodes : IsTone(nodes[n]) /\ nodes[n].out = {"analyser"}
    /\ analyserOut = {"destination"}
    /\ lastDone.outcome = "ok"

\* C22: while the mode is none, from the visualize() that selected it on:
\* no frame callback is pending, none runs, and the canvas is cleared
C22_NoneStopsTheLoop ==
    [][visualizerType' = "none" =>
          /\ \A i \in DOMAIN frames' : frames'[i].st # "pending"
          /\ \A i \in DOMAIN frames :
                 frames'[i].st \in {"fired", "failed"} => frames'[i].st = frames[i].st
          /\ Len(frames') = Len(frames)
          /\ canvas' = "cleared"]_vars

\* none was selected while a loop that had drawn frames was running, and a
\* tone was activated since
C22_Witness ==
    /\ visualizerType = "none"
    /\ canvas = "cleared"
    /\ \E h, i \in DOMAIN frames :
           /\ h < i
           /\ frames[h].st = "fired" /\ frames[h].loop = frames[i].loop
           /\ frames[i].st = "cancelled"
    /\ lastDone.fn = "playTone" /\ lastDone.outcome = "ok" /\ lastDone.since = ""

\* C23: every player createWhiteNoise returns loops a buffer of exactly
\* 2 x sampleRate samples, each of them in [-1, 1]
C23_WhiteNoiseBuffer ==
    \A k \in DOMAIN noiseBuffers :
        noiseBuffers[k].kind = "white" =>
            /\ noiseBuffers[k].loop
            /\ noiseBuffers[k].length = 2 * sampleRate
            /\ Len(noiseBuffers[k].data) = 2 * sampleRate
            /\ \A i \in DOMAIN noiseBuffers[k].data :
                   /\ noiseBuffers[k].data[i] >= 0 - Fix
                   /\ noiseBuffers[k].data[i] <= Fix

\* a white-noise buffer at the highest sample rate that holds the lowest
\* sample, -1, and the highest, 1 - 2 / Scale
C23_Witness ==
    /\ sampleRate = MaxSampleRate
    /\ \E k \in DOMAIN noiseBuffers :
           /\ noiseBuffers[k].kind = "white"
           /\ \E i \in DOMAIN noiseBuffers[k].data : noiseBuffers[k].data[i] = 0 - Fix
           /\ \E i \in DOMAIN noiseBuffers[k].data :
                  noiseBuffers[k].data[i] = White(Scale - 1)

\* C24: on a context that is not closed a call of ensureAnalyserOutput
\* that follows earlier calls changes nothing: it succeeds without an
\* alert, the analyser keeps its one connection, to the destination, and a
\* further call gives the same again
C24_EnsureAnalyserOutputIdempotent ==
    ctxState # "closed" =>
        LET once == EnsureAnalyserOutput(ctxState, analyserOut)
            twice == EnsureAnalyserOutput(ctxState, once.out)
        IN /\ once.ok /\ once.alerts = 0 /\ once.errors = 0
           /\ once.out = analyserOut
           /\ once.out = {"destination"}
           /\ twice = once

\* two activations have run ensureAnalyserOutput on the open context, after
\* the connection made by audioContext.js
C24_Witness ==
    /\ ctxState = "running"
    /\ Len(nodes) >= 2
    /\ lastDone.outcome = "ok"
    /\ Did(lastDone, "ensureAnalyserOutput")
    /\ analyserOut = {"destination"}

\* C25: every noise player has a buffer of its own: no two noise players
\* created by playTone loop the same buffer, whether or not the earlier one
\* was stopped
C25_OneBufferPerActivation ==
    \A n, m \in DOMAIN nodes :
        (n # m /\ nodes[n].kind \in {"white", "pink"}
               /\ nodes[m].kind \in {"white", "pink"})
        => (/\ nodes[n].buffer # 0
            /\ nodes[m].buffer # 0
            /\ nodes[n].buffer # nodes[m].buffer)

\* a white-noise player was stopped and a second one is playing
C25_Witness ==
    \E n, m \in DOMAIN nodes :
        /\ n < m
        /\ nodes[n].kind = "white" /\ nodes[n].stopped
        /\ nodes[m].kind = "white" /\ nodes[m].started /\ ~nodes[m].stopped
        /\ source = m

\* C26: the filter state of createPinkNoise starts at zero in every call:
\* all the players it returns for the same values of Math.random() loop the
\* same buffer, of 2 x sampleRate samples, whatever noise function was
\* called before
C26_PinkFilterIsLocal ==
    \A k \in DOMAIN noiseBuffers :
        noiseBuffers[k].kind = "pink" =>
            /\ noiseBuffers[k].loop
            /\ noiseBuffers[k].length = 2 * sampleRate
            /\ Len(noiseBuffers[k].data) = 2 * sampleRate
            /\ noiseBuffers[k].data =
                   PinkLoop(random, 0, 2 * sampleRate, ZeroFilter, <<>>).data
            /\ \A j \in DOMAIN noiseBuffers :
                   noiseBuffers[j].kind = "pink" =>
                       noiseBuffers[j].data = noiseBuffers[k].data

\* createPinkNoise was called, left a filter state other than zero, and
\* was called again after a call of createWhiteNoise
C26_Witness ==
    /\ b # ZeroFilter
    /\ \E i, j, k \in DOMAIN noiseBuffers :
           /\ i < j /\ j < k
           /\ noiseBuffers[i].kind = "pink"
           /\ noiseBuffers[j].kind = "white"
           /\ noiseBuffers[k].kind = "pink"
           /\ \E n \in DOMAIN noiseBuffers[k].data : noiseBuffers[k].data[n] # 0

RECURSIVE SumSeq(_)
SumSeq(q) == IF q = <<>> THEN 0 ELSE Head(q) + SumSeq(Tail(q))

\* C27: a frame of a kaleidoscope loop draws segments points, 60 or 120,
\* point i reading bin i mod frequencyBinCount; the rotation is, in 1/1000,
\* the sum of dataArray[0] over the frames of the loop, 0 before the first
\* frame, and a frame never lowers it
C27_KaleidoscopeFrame ==
    [][/\ segments' \in {60, 120}
       /\ Len(points') = segments'
       /\ \A i \in 0..(segments' - 1) : points'[i + 1] = i % bufferLength'
       /\ rotation' = SumSeq(lowest')
       /\ Len(lowest') = 1 => rotation' = lowest'[1]
       /\ Len(lowest') > 1 => (lowest = SubSeq(lowest', 1, Len(lowest))
                                 /\ rotation' >= rotation)]_vars

\* a loop of drawKaleidoscopeB has drawn its last frame, over an analyser
\* with fewer bins than points, and has turned in every frame
C27_Witness ==
    /\ segments = 120
    /\ bufferLength = 64
    /\ Len(lowest) = MaxLoopFrames
    /\ \A k \in DOMAIN lowest : lowest[k] > 0
    /\ points[65] = 0
    /\ rotation > 255

\* C28: a stopTone invoked while a playTone with a valid frequency waits for
\* audioContext.resume() cancels that playTone: once both have returned,
\* source is null and no tone or noise producer is started and not stopped
C28_StopDuringResumeCancels ==
    (/\ lastDone.fn = "playTone"
     /\ ~NotPositiveFinite(lastDone.arg)
     /\ Did(lastDone, "resume")
     /\ lastDone.since = "stopTone"
     /\ calls = <<>>)
    => (/\ source = 0
        /\ \A n \in DOMAIN nodes :
               IsTone(nodes[n]) => (~nodes[n].started \/ nodes[n].stopped))

\* C29: whatever playTone calls overlap and however their continuations
\* interleave, a tone or noise producer that is started and not stopped is
\* the one source holds, so there is at most one
C29_NoOrphanProducer ==
    \A n \in DOMAIN nodes :
        (IsTone(nodes[n]) /\ nodes[n].started /\ ~nodes[n].stopped) => n = source

\* two playTone calls were both waiting for the resume; both have run, the
\* producer of the first is stopped and source holds that of the second
C29_Witness ==
    /\ calls = <<>>
    /\ lastDone.fn = "playTone"
    /\ lastDone.outcome = "ok"
    /\ Did(lastDone, "resume")
    /\ Len(nodes) = 2
    /\ nodes[1].started /\ nodes[1].stopped
    /\ source = 2
    /\ nodes[2].started /\ ~nodes[2].stopped

\* C30: a stopMp3 invoked while a setupAudioNodes waits (for the resume of
\* the context or for play()) is not undone by the continuation: when that
\* setupAudioNodes returns, no media producer is connected to the analyser
\* and no visualization frame is pending
C30_StopDuringSetupHolds ==
    [][\A p \in DOMAIN calls :
          (/\ calls[p].fn = "setupAudioNodes"
           /\ calls[p].since = "stopMp3"
           /\ Did(calls[p], "resume") \/ calls[p].pc = "playAborted"
           /\ Returns(p))
          => (/\ \A n \in DOMAIN nodes' :
                     nodes'[n].kind = "media" => "analyser" \notin nodes'[n].out
              /\ \A i \in DOMAIN frames' : frames'[i].st # "pending")]_vars
====
